---- MODULE Spec2Model ----
(***************************************************************************)
(* A model of sgsession.entity.Entity (src/sgsession/entity.py): the       *)
(* identity rules, deep field reads, the pure-data export and the merge    *)
(* engine (Entity._update) with its backref index.                         *)
(*                                                                         *)
(* Python values are tagged records.  A dict key is the sequence of the    *)
(* segments of the key string between its dots: "parent.Shot.id" is        *)
(* <<"parent", "Shot", "id">>.  A dict is a function from keys to values.  *)
(* Entity objects live in a heap: fields[o] is the dict content of object  *)
(* o (Entity subclasses dict), backrefs[o] its backref index, exists_[o]   *)
(* its _exists flag.  The object's index o stands for id(self).            *)
(*                                                                         *)
(* The session is the collaborator of the entities: cache is its identity  *)
(* map, schema its schema, tasks the calls submitted to its concurrent     *)
(* execution facility, calls the fetch and existence calls that the last   *)
(* operation made on it.  procs holds the merges that run concurrently.    *)
(***************************************************************************)
EXTENDS Integers, Sequences, FiniteSets, TLC

VARIABLES fields, backrefs, exists_, cache, schema, last, tasks, calls, procs

vars == <<fields, backrefs, exists_, cache, schema, last, tasks, calls, procs>>

(***************************************************************************)
(* Values                                                                  *)
(***************************************************************************)
None == [t |-> "none"]
VInt(n) == [t |-> "int", n |-> n]
VStr(s) == [t |-> "str", s |-> s]
\* a naive datetime, at |-> seconds
VDt(n) == [t |-> "dt", at |-> n]
\* a timezone-aware datetime: local clock reading and utc offset
VDtz(n, off) == [t |-> "dtz", at |-> n, off |-> off]
\* a reference to the Entity object o
VEnt(o) == [t |-> "ent", o |-> o]
\* a plain dict
VDict(d) == [t |-> "dict", d |-> d]
\* a list
VList(l) == [t |-> "list", l |-> l]
\* id(self) of the object o
VAddr(o) == [t |-> "addr", o |-> o]
\* the string 'Detached-%s' % type_
VDetached(ty) == [t |-> "detached", of |-> ty]
\* True, False
VBool(b) == [t |-> "bool", b |-> b]

EmptyDict == <<>>

K(s) == <<s>>
KType == <<"type">>
KId == <<"id">>

\* Python truth value of v (used by "type_ and id_", "not data[id_field]",
\* "if over", "or created_at")
Truthy(v) ==
    CASE v.t = "none" -> FALSE
      [] v.t = "bool" -> v.b
      [] v.t = "int" -> v.n # 0
      [] v.t = "str" -> v.s # ""
      [] v.t = "dict" -> DOMAIN v.d # {}
      [] v.t = "list" -> Len(v.l) > 0
      [] OTHER -> TRUE

\* isinstance(v, dict): Entity is a dict subclass
IsDict(v) == v.t \in {"dict", "ent"}

\* isinstance(v, Entity)
IsEntity(v) == v.t = "ent"

\* the content of a dict-like value as seen by dict.__getitem__
DictOf(F, v) == IF v.t = "ent" THEN F[v.o] ELSE v.d

\* dict.get(d, key) with the default None
DictGet(d, key) == IF key \in DOMAIN d THEN d[key] ELSE None

\* d with d[key] = v
DictSet(d, key, v) == [k \in DOMAIN d \cup {key} |-> IF k = key THEN v ELSE d[k]]

\* d without key
DictDel(d, key) == [k \in DOMAIN d \ {key} |-> d[k]]

(***************************************************************************)
(* The lexicon: which segments the regular expressions of the source       *)
(* accept.  \w+ accepts every non-empty segment that has no character      *)
(* outside [A-Za-z0-9_]; [A-Z]\w+ accepts the capitalised ones.            *)
(***************************************************************************)
CapWords == {"Shot", "Task", "Project", "Type"}

NonWords == {"", "$alias"}

IsWord(s) == s \notin NonWords

\* the rest of a key after its first two segments
Rest(key) == SubSeq(key, 3, Len(key))

\* re.match(r'^(\w+)\.([A-Z]\w+)\.(.+)$', remote) in __getitem__
MatchDeepRead(key) ==
    /\ Len(key) >= 3
    /\ IsWord(key[1])
    /\ key[2] \in CapWords
    /\ Rest(key) # <<"">>

\* re.match(r'^(\w+)\.([A-Z]\w+)\.(.*)$', k) in _update
MatchDeepKey(key) ==
    /\ Len(key) >= 3
    /\ IsWord(key[1])
    /\ key[2] \in CapWords

(***************************************************************************)
(* Results of operations that may raise                                    *)
(***************************************************************************)
Ok(v) == [ok |-> TRUE, v |-> v]
Raise(exc, arg) == [ok |-> FALSE, exc |-> exc, arg |-> arg]

\* a local variable: Body at the value of e, which is computed once
Bind(e, Body(_)) == CHOOSE r \in {Body(x) : x \in {e}} : TRUE

(***************************************************************************)
(* The schema collaborator (session.schema.resolve_one_field): an alias    *)
(* table on the first segment of a field name; "none" is no schema.        *)
(***************************************************************************)
SchemaResolve(ty, key) ==
    IF key[1] = "$alias" THEN <<"x">> \o Tail(key) ELSE key

\* Entity._resolve_key
ResolveKey(sch, F, o, key) ==
    IF sch = "none" THEN key ELSE SchemaResolve(F[o][KType], key)

(***************************************************************************)
(* Identity & equality                                                     *)
(***************************************************************************)
\* Entity.cache_key
CacheKey(F, o) ==
    LET type_ == DictGet(F[o], KType)
        id_ == DictGet(F[o], KId)
    IN  IF Truthy(type_) /\ Truthy(id_) THEN <<type_, id_>>
        ELSE IF Truthy(type_) THEN <<VDetached(type_), VAddr(o)>>
        ELSE IF Truthy(id_) THEN <<VStr("Unknown"), id_>>
        ELSE <<VStr("Detached-Unknown"), VAddr(o)>>

\* HashOf gone wrong: the hash also depends on another stored field
HashOfAllFields(F, o) ==
    LET type_ == DictGet(F[o], KType)
        id_ == DictGet(F[o], KId)
    IN  IF ~(Truthy(type_) /\ Truthy(id_))
        THEN Raise("TypeError", None)
        ELSE Ok(<<type_, id_, DictGet(F[o], K("x"))>>)

\* Entity.__hash__; hash((type_, id_)) is kept as the pair it is computed from
HashOf(F, o) ==
    LET type_ == DictGet(F[o], KType)
        id_ == DictGet(F[o], KId)
    IN  IF ~(Truthy(type_) /\ Truthy(id_))
        THEN Raise("TypeError", None)
        ELSE Ok(<<type_, id_>>)

\* Entity.minimal: dict(type=self['type'], id=self['id'])
Minimal(F, o) == VDict([k \in {KType, KId} |-> F[o][k]])

(***************************************************************************)
(* Field storage: reads                                                    *)
(***************************************************************************)
\* the try block of __getitem__: the loop over the hops of a deep name and
\* the final dict.__getitem__(src, remote); src is a dict's content
RECURSIVE Walk(_, _, _)
Walk(F, src, remote) ==
    IF MatchDeepRead(remote)
    THEN LET local == <<remote[1]>>
             type_ == remote[2]
         IN  IF local \notin DOMAIN src THEN Raise("KeyError", local)
             ELSE IF ~IsDict(src[local]) THEN Raise("KeyError", <<"">>)
             ELSE LET nxt == DictOf(F, src[local])
                  IN  IF KType \notin DOMAIN nxt THEN Raise("KeyError", KType)
                      ELSE IF nxt[KType] # VStr(type_) THEN Raise("KeyError", <<"">>)
                      ELSE Walk(F, nxt, Rest(remote))
    ELSE IF remote \in DOMAIN src THEN Ok(src[remote])
         ELSE Raise("KeyError", remote)

\* Entity.__getitem__ (keys are strings)
GetItem(sch, F, o, key) ==
    IF key \in {KId, KType}
    THEN IF key \in DOMAIN F[o] THEN Ok(F[o][key]) ELSE Raise("KeyError", key)
    ELSE LET rk == ResolveKey(sch, F, o, key)
             r == Walk(F, F[o], rk)
         IN  IF r.ok THEN r ELSE Raise("KeyError", rk)

\* Entity.__contains__
Contains(sch, F, o, key) == GetItem(sch, F, o, key).ok

\* Entity.get(fields, default) for a single field name, run inline
Get(sch, F, o, key, default) ==
    LET r == GetItem(sch, F, o, key) IN IF r.ok THEN r.v ELSE default

\* IsSameEntity gone wrong: only the ids are compared
IsSameEntityIdOnly(sch, F, o, other) ==
    DictGet(F[o], KId) = Get(sch, F, other, KId, None)

\* Entity.is_same_entity(other), other an Entity
IsSameEntity(sch, F, o, other) ==
    LET type_ == DictGet(F[o], KType)
        id_ == DictGet(F[o], KId)
    IN  type_ = Get(sch, F, other, KType, None) /\ id_ = Get(sch, F, other, KId, None)

(***************************************************************************)
(* Key order.  sorted() compares the key strings; "." sorts before every   *)
(* word character, so the order of the strings is the lexicographic order  *)
(* of their segments.  SegRank is the string order of the segments in use. *)
(***************************************************************************)
Segs == <<"", "$alias", "Project", "Shot", "Task", "Type", "code", "created_at",
          "friend", "id", "name", "parent", "project", "tasks", "type",
          "updated_at", "x", "y">>

SegRank(s) == CHOOSE i \in 1..Len(Segs) : Segs[i] = s

RECURSIVE KeyLess(_, _)
KeyLess(a, b) ==
    IF a = <<>> THEN b # <<>>
    ELSE IF b = <<>> THEN FALSE
    ELSE IF Head(a) = Head(b) THEN KeyLess(Tail(a), Tail(b))
    ELSE SegRank(Head(a)) < SegRank(Head(b))

\* the keys of S in sorted order
RECURSIVE SortKeys(_)
SortKeys(S) ==
    IF S = {} THEN <<>>
    ELSE LET m == CHOOSE a \in S : \A b \in S : a = b \/ KeyLess(a, b)
         IN  <<m>> \o SortKeys(S \ {m})

Range(seq) == {seq[i] : i \in 1..Len(seq)}

\* The iteration order of a dict with the keys S.  CPython 2 iterates a dict
\* in the order of its hash table slots, which neither a deletion nor (below
\* the resize threshold) an insertion changes for the other keys: ord ranks
\* the keys of one record, and every loop over that record follows it.  Keys
\* that ord does not rank follow in sorted order.
IterOrder(ord, S) ==
    SelectSeq(ord, LAMBDA k : k \in S) \o SortKeys(S \ Range(ord))

(***************************************************************************)
(* Timestamps (sgsession.utils, a collaborator of this file)               *)
(***************************************************************************)
IsoStrings == {"1970-01-01T00:00:00Z", "1970-01-01T00:00:01Z",
               "1970-01-01T00:00:02Z", "1970-01-01T00:00:03Z"}

IsoTime(s) ==
    CASE s = "1970-01-01T00:00:00Z" -> 0
      [] s = "1970-01-01T00:00:01Z" -> 1
      [] s = "1970-01-01T00:00:02Z" -> 2
      [] s = "1970-01-01T00:00:03Z" -> 3

\* parse_isotime: a string is parsed (ValueError when it is no ISO time),
\* anything else is returned as it is
ParseIsotime(v) ==
    IF v.t = "str"
    THEN IF v.s \in IsoStrings THEN Ok(VDt(IsoTime(v.s))) ELSE Raise("ValueError", v)
    ELSE Ok(v)

\* expect_datetime: None stays None, a datetime stays, an ISO string is
\* parsed, anything else is an error
ExpectDatetime(v) ==
    IF v.t \in {"none", "dt", "dtz"} THEN Ok(v)
    ELSE IF v.t = "str" /\ v.s \in IsoStrings THEN Ok(VDt(IsoTime(v.s)))
    ELSE Raise("ValueError", v)

\* datetime(*v.utctimetuple()[:6]) for an aware datetime
ToUtc(v) == IF v.t = "dtz" THEN VDt(v.at - v.off) ELSE v

\* a > b as Python 2 evaluates it for the values parse_isotime returns: two
\* naive datetimes compare, a datetime against anything else is a TypeError
Greater(a, b) ==
    IF a.t = "dt" /\ b.t = "dt" THEN Ok(a.at > b.at) ELSE Raise("TypeError", None)

(***************************************************************************)
(* Export.  visited is the set of the Entity objects added so far; a set   *)
(* finds a member by its hash and then by identity or equality.            *)
(***************************************************************************)
\* "obj in visited", obj hashable
InVisited(F, visited, o) ==
    \E p \in visited : HashOf(F, p) = HashOf(F, o) /\ (p = o \/ F[p] = F[o])

RECURSIVE AsDictValue(_, _, _)
RECURSIVE AsDictItems(_, _, _, _, _, _)
RECURSIVE AsDictList(_, _, _, _, _)

\* the loop "for k, v in sorted(obj.iteritems())" from the i-th key on
AsDictItems(F, src, keys, i, ret, visited) ==
    IF i > Len(keys) THEN [ok |-> TRUE, v |-> VDict(ret), visited |-> visited]
    ELSE LET r == AsDictValue(F, src[keys[i]], visited)
         IN  IF ~r.ok THEN r
             ELSE AsDictItems(F, src, keys, i + 1, DictSet(ret, keys[i], r.v), r.visited)

\* [cls._as_dict(x, visited) for x in obj] from the i-th element on
AsDictList(F, l, i, ret, visited) ==
    IF i > Len(l) THEN [ok |-> TRUE, v |-> VList(ret), visited |-> visited]
    ELSE LET r == AsDictValue(F, l[i], visited)
         IN  IF ~r.ok THEN r
             ELSE AsDictList(F, l, i + 1, Append(ret, r.v), r.visited)

\* Entity._as_dict(obj, visited)
AsDictValue(F, obj, visited) ==
    IF obj.t = "list" THEN AsDictList(F, obj.l, 1, <<>>, visited)
    ELSE IF ~IsDict(obj) THEN [ok |-> TRUE, v |-> obj, visited |-> visited]
    ELSE IF IsEntity(obj)
    THEN IF ~HashOf(F, obj.o).ok
         THEN [ok |-> FALSE, exc |-> "TypeError", visited |-> visited]
         ELSE IF InVisited(F, visited, obj.o)
         THEN [ok |-> TRUE, v |-> Minimal(F, obj.o), visited |-> visited]
         ELSE AsDictItems(F, F[obj.o], SortKeys(DOMAIN F[obj.o]), 1, EmptyDict,
                          visited \cup {obj.o})
    ELSE AsDictItems(F, obj.d, SortKeys(DOMAIN obj.d), 1, EmptyDict, visited)

\* Entity.as_dict
AsDict(F, o) == AsDictValue(F, VEnt(o), {})

(***************************************************************************)
(* The session state an operation works on: F the entities' dict contents, *)
(* B their backref indices, X their _exists flags, C the session's         *)
(* identity map from cache_key to object.                                  *)
(***************************************************************************)
Heap(F, B, X, C) == [F |-> F, B |-> B, X |-> X, C |-> C]

OkSt(st, v) == [ok |-> TRUE, st |-> st, v |-> v]
ErrSt(st, exc) == [ok |-> FALSE, st |-> st, exc |-> exc]

\* Entity.__init__(type_, id_, session): the new object is Len(F) + 1
NewEntity(st, type_, id_) ==
    [st EXCEPT !.F = Append(@, [k \in {KType, KId} |-> IF k = KType THEN type_ ELSE id_]),
               !.B = Append(@, EmptyDict),
               !.X = Append(@, None)]

\* "self not in backrefs": list membership is identity or dict equality
InList(F, lst, o) == \E i \in 1..Len(lst) : lst[i] = o \/ F[lst[i]] = F[o]

(***************************************************************************)
(* The merge engine.  SessionMerge is the session's merge (a collaborator  *)
(* of this file): a dict carrying both type and id is the record of an     *)
(* entity, which is looked up in (or added to) the identity map and        *)
(* updated with the record; any other dict is rebuilt with its values      *)
(* merged; every other value is returned as it is.                         *)
(***************************************************************************)
RECURSIVE SessionMerge(_, _, _, _, _, _)
RECURSIVE MergeValues(_, _, _, _, _, _, _, _)
RECURSIVE SetItem(_, _, _, _, _)
RECURSIVE UpdateOp(_, _, _, _, _, _, _, _)
RECURSIVE PreLoop(_, _, _, _, _)
RECURSIVE AssignLoop(_, _, _, _, _)

\* the values of the plain dict d, merged key by key
MergeValues(sch, st, d, keys, acc, over, created_at, depth) ==
    IF keys = <<>> THEN OkSt(st, VDict(acc))
    ELSE Bind(SessionMerge(sch, st, d[Head(keys)], over, created_at, depth),
              LAMBDA m :
                IF ~m.ok THEN m
                ELSE MergeValues(sch, m.st, d, Tail(keys),
                                 DictSet(acc, Head(keys), m.v), over, created_at, depth))

SessionMerge(sch, st, v, over, created_at, depth) ==
    IF v.t # "dict" THEN OkSt(st, v)
    ELSE IF KType \in DOMAIN v.d /\ KId \in DOMAIN v.d
    THEN LET fresh == NewEntity(st, v.d[KType], v.d[KId])
             n == Len(fresh.F)
             key == CacheKey(fresh.F, n)
             known == key \in DOMAIN st.C
             o == IF known THEN st.C[key] ELSE n
             st1 == IF known THEN st
                    ELSE [fresh EXCEPT !.C = [c \in DOMAIN st.C \cup {key} |->
                                              IF c = key THEN n ELSE st.C[c]]]
         IN  Bind(UpdateOp(sch, st1, o, v.d, over, created_at, depth + 1, <<>>),
                  LAMBDA u : IF u.ok THEN OkSt(u.st, VEnt(o)) ELSE ErrSt(u.st, u.exc))
    ELSE MergeValues(sch, st, v.d, SortKeys(DOMAIN v.d), EmptyDict, over,
                     created_at, depth)

\* SetItem gone wrong: an entity that the field held is told to forget the
\* backrefs from o
SetItemRetract(sch, st, o, key, value) ==
    LET rk == ResolveKey(sch, st.F, o, key)
        pv == IF rk \in {K("updated_at"), K("created_at")}
              THEN ParseIsotime(value) ELSE Ok(value)
        held == DictGet(st.F[o], rk)
        forget(B) == [b \in DOMAIN B |-> SelectSeq(B[b], LAMBDA e : e # o)]
    IN  IF ~pv.ok THEN ErrSt(st, "NameError")
        ELSE Bind(SessionMerge(sch, st, pv.v, None, None, 0),
                  LAMBDA m :
                    IF ~m.ok THEN m
                    ELSE OkSt([m.st EXCEPT !.F[o] = DictSet(@, rk, m.v),
                                           !.B = [t \in DOMAIN m.st.B |->
                                                    IF IsEntity(held) /\ held.o = t
                                                    THEN forget(m.st.B[t])
                                                    ELSE m.st.B[t]]],
                              m.v))

\* Entity.__setitem__; log is not a name of the module, so the handler of
\* the ValueError raises a NameError
SetItem(sch, st, o, key, value) ==
    LET rk == ResolveKey(sch, st.F, o, key)
        pv == IF rk \in {K("updated_at"), K("created_at")}
              THEN ParseIsotime(value) ELSE Ok(value)
    IN  IF ~pv.ok THEN ErrSt(st, "NameError")
        ELSE Bind(SessionMerge(sch, st, pv.v, None, None, 0),
                  LAMBDA m :
                    IF ~m.ok THEN m
                    ELSE OkSt([m.st EXCEPT !.F[o] = DictSet(@, rk, m.v)], m.v))

\* Entity.setdefault
SetDefault(sch, st, o, key, value) ==
    LET rk == ResolveKey(sch, st.F, o, key)
    IN  Bind(SessionMerge(sch, st, value, None, None, 0),
             LAMBDA m :
               IF ~m.ok THEN m
               ELSE IF rk \in DOMAIN m.st.F[o] THEN OkSt(m.st, m.st.F[o][rk])
               ELSE OkSt([m.st EXCEPT !.F[o] = DictSet(@, rk, m.v)], m.v))

\* One pass of the loop that pre-processes deep linked names, for the item
\* (k, v) of the snapshot data.items().  p.data is the working copy,
\* p.caller the caller's record, p.shared the fields whose dict the working
\* copy still shares with the caller's record (dict(data) copies one level).
PreStep(sch, p, k, v) ==
    IF ~MatchDeepKey(k) THEN p
    ELSE
    LET field == <<k[1]>>
        type_ == k[2]
        deep_field == Rest(k)
        id_field == <<k[1], k[2], "id">>
    IN  IF v = None /\ deep_field = KId
        THEN [p EXCEPT !.data = DictSet(@, field, None), !.shared = @ \ {field}]
        ELSE IF v = None /\ id_field \in DOMAIN p.data /\ ~Truthy(p.data[id_field])
        THEN p
        ELSE
        LET d1 == IF field \in DOMAIN p.data THEN p.data
                  ELSE DictSet(p.data, field, VDict(EmptyDict))
            cur == d1[field]
        IN  IF cur.t = "dict"
            THEN LET n1 == IF KType \in DOMAIN cur.d THEN cur.d
                           ELSE DictSet(cur.d, KType, VStr(type_))
                     n2 == IF n1[KType] = VStr(type_) /\ v # None
                           THEN DictSet(n1, deep_field, v) ELSE n1
                 IN  [p EXCEPT !.data = DictDel(DictSet(d1, field, VDict(n2)), k),
                               !.caller = IF field \in p.shared
                                          THEN DictSet(@, field, VDict(n2)) ELSE @]
            ELSE IF cur.t = "ent"
            THEN Bind(SetDefault(sch, p.st, cur.o, KType, VStr(type_)),
                      LAMBDA sd :
                        Bind(IF sd.ok /\ sd.v = VStr(type_) /\ v # None
                             THEN SetItem(sch, sd.st, cur.o, deep_field, v) ELSE sd,
                             LAMBDA si :
                               IF si.ok
                               THEN [p EXCEPT !.data = DictDel(d1, k), !.st = si.st]
                               ELSE [p EXCEPT !.data = d1, !.st = si.st,
                                              !.ok = FALSE, !.exc = si.exc]))
            ELSE IF v # None
            THEN [p EXCEPT !.data = d1, !.ok = FALSE, !.exc = "ValueError"]
            ELSE [p EXCEPT !.data = DictDel(d1, k)]

\* for k, v in data.items(): the items of snap, in the order keys
PreLoop(sch, p, snap, keys, i) ==
    IF i > Len(keys) \/ ~p.ok THEN p
    ELSE Bind(PreStep(sch, p, keys[i], snap[keys[i]]),
              LAMBDA p1 : PreLoop(sch, p1, snap, keys, i + 1))

\* DecideOverride gone wrong: new values always override
DecideOverrideAlways(sch, F, o, data, over, created_at) == Ok(TRUE)

\* "Determine if new values override old ones."
DecideOverride(sch, F, o, data, over, created_at) ==
    IF Truthy(over) THEN Ok(TRUE)
    ELSE IF over = None
    THEN IF Contains(sch, F, o, K("updated_at"))
              /\ (K("updated_at") \in DOMAIN data \/ Truthy(created_at))
         THEN LET self_updated_at ==
                      ParseIsotime(GetItem(sch, F, o, K("updated_at")).v)
                  data_updated_at ==
                      ParseIsotime(IF K("updated_at") \in DOMAIN data
                                   THEN data[K("updated_at")] ELSE created_at)
              IN  IF ~self_updated_at.ok THEN self_updated_at
                  ELSE IF ~data_updated_at.ok THEN data_updated_at
                  ELSE Greater(data_updated_at.v, self_updated_at.v)
         ELSE Ok(TRUE)
    ELSE Ok(FALSE)

\* EstablishBackref gone wrong: filed under the type of the target
EstablishBackrefTargetType(st, o, k, target) ==
    LET bkey == <<st.F[target][KType], k>>
        lst == IF bkey \in DOMAIN st.B[target] THEN st.B[target][bkey] ELSE <<>>
    IN  [st EXCEPT !.B[target] =
            DictSet(@, bkey, IF InList(st.F, lst, o) THEN lst ELSE Append(lst, o))]

\* "Establish a backref.": v.backrefs.setdefault((self['type'], k), []) and
\* the append of self unless it is in that list
EstablishBackref(st, o, k, target) ==
    LET bkey == <<st.F[o][KType], k>>
        lst == IF bkey \in DOMAIN st.B[target] THEN st.B[target][bkey] ELSE <<>>
    IN  [st EXCEPT !.B[target] =
            DictSet(@, bkey, IF InList(st.F, lst, o) THEN lst ELSE Append(lst, o))]

\* ApplyField gone wrong: a field is assigned only when the merge overrides
ApplyFieldOverrideOnly(sch, F, o, k, do_override) == do_override

\* "if do_override or k not in self"
ApplyField(sch, F, o, k, do_override) == do_override \/ ~Contains(sch, F, o, k)

\* One pass of "for k, v in data.iteritems()".  a.log records, for each
\* field, the merged value and whether it was assigned.
AssignStep(sch, a, k) ==
    Bind(SessionMerge(sch, a.st, a.data[k], a.over, a.created_at, a.depth + 1),
         LAMBDA m :
           IF ~m.ok THEN [a EXCEPT !.st = m.st, !.ok = FALSE, !.exc = m.exc]
           ELSE IF ~ApplyField(sch, m.st.F, a.o, k, a.do_override)
           THEN [a EXCEPT !.st = m.st,
                          !.log = Append(@, [k |-> k, v |-> m.v, assigned |-> FALSE])]
           ELSE Bind(SetItem(sch, m.st, a.o, k, m.v),
                     LAMBDA s :
                       IF ~s.ok
                       THEN [a EXCEPT !.st = s.st, !.ok = FALSE, !.exc = s.exc]
                       ELSE [a EXCEPT
                               !.st = IF IsEntity(m.v)
                                      THEN EstablishBackref(s.st, a.o, k, m.v.o)
                                      ELSE s.st,
                               !.log = Append(@, [k |-> k, v |-> m.v,
                                                  assigned |-> TRUE])]))

AssignLoop(sch, a, keys, i, n) ==
    IF i > n \/ ~a.ok THEN a
    ELSE Bind(AssignStep(sch, a, keys[i]),
              LAMBDA a1 : AssignLoop(sch, a1, keys, i + 1, n))

\* Entity._update(data, over, created_at, depth); ord is the iteration order
\* of the record (see IterOrder).  The result carries the session state, the
\* caller's record as the call leaves it, the pre-processed data, the
\* override decision and the log of the assignment loop.
UpdateOp(sch, st, o, data0, over, created_at0, depth, ord) ==
    LET ca == ExpectDatetime(created_at0)
        fail(s, exc, caller, data) ==
            [ok |-> FALSE, st |-> s, exc |-> exc, caller |-> caller, data |-> data,
             do_override |-> FALSE, log |-> <<>>]
    IN  IF ~ca.ok THEN fail(st, "ValueError", data0, data0)
        ELSE
        LET utc == [k \in DOMAIN data0 |-> ToUtc(data0[k])]
            p0 == [data |-> utc, caller |-> data0,
                   shared |-> {k \in DOMAIN data0 : data0[k].t = "dict"},
                   st |-> st, ok |-> TRUE, exc |-> ""]
        IN  Bind(PreLoop(sch, p0, utc, IterOrder(ord, DOMAIN utc), 1),
                 LAMBDA p :
        IF ~p.ok THEN fail(p.st, p.exc, p.caller, p.data)
        ELSE
        Bind(DecideOverride(sch, p.st.F, o, p.data, over, ca.v),
             LAMBDA dec :
        IF ~dec.ok THEN fail(p.st, dec.exc, p.caller, p.data)
        ELSE
        Bind(IterOrder(ord, DOMAIN p.data),
             LAMBDA keys :
        Bind(AssignLoop(sch,
                        [st |-> p.st, o |-> o, data |-> p.data, over |-> over,
                         created_at |-> ca.v, depth |-> depth,
                         do_override |-> dec.v, ok |-> TRUE, exc |-> "",
                         log |-> <<>>],
                        keys, 1, Len(keys)),
             LAMBDA a :
        [ok |-> a.ok, st |-> a.st, exc |-> a.exc, caller |-> p.caller,
         data |-> p.data, do_override |-> dec.v, log |-> a.log]))))

\* Entity._update up to the override decision: the working copy, the
\* pre-processing of deep keys and do_override; keys is the order in which
\* the assignment loop will visit the working copy
UpdateBegin(sch, st, o, data0, over, created_at0, ord) ==
    LET ca == ExpectDatetime(created_at0)
        fail(s, exc) == [ok |-> FALSE, st |-> s, exc |-> exc, data |-> data0,
                         do_override |-> FALSE, keys |-> <<>>]
    IN  IF ~ca.ok THEN fail(st, "ValueError")
        ELSE
        LET utc == [k \in DOMAIN data0 |-> ToUtc(data0[k])]
            p0 == [data |-> utc, caller |-> data0,
                   shared |-> {k \in DOMAIN data0 : data0[k].t = "dict"},
                   st |-> st, ok |-> TRUE, exc |-> ""]
        IN  Bind(PreLoop(sch, p0, utc, IterOrder(ord, DOMAIN utc), 1),
                 LAMBDA p :
        IF ~p.ok THEN fail(p.st, p.exc)
        ELSE
        Bind(DecideOverride(sch, p.st.F, o, p.data, over, ca.v),
             LAMBDA dec :
        IF ~dec.ok THEN fail(p.st, dec.exc)
        ELSE [ok |-> TRUE, st |-> p.st, exc |-> "", data |-> p.data,
              do_override |-> dec.v, keys |-> IterOrder(ord, DOMAIN p.data)]))

\* UpdateAssign gone wrong: the pass assigns nothing
UpdateAssignSkip(sch, st, o, data, over, do_override, k) ==
    [st |-> st, ok |-> TRUE, exc |-> ""]

\* one pass of the assignment loop of Entity._update, for the key k of the
\* working copy, with the override decision taken before
UpdateAssign(sch, st, o, data, over, do_override, k) ==
    Bind(AssignStep(sch,
                    [st |-> st, o |-> o, data |-> data, over |-> over,
                     created_at |-> None, depth |-> 0, do_override |-> do_override,
                     ok |-> TRUE, exc |-> "", log |-> <<>>],
                    k),
         LAMBDA a : [st |-> a.st, ok |-> a.ok, exc |-> a.exc])

(***************************************************************************)
(* Lazy remote accessors.  The session's bulk operations are collaborators *)
(* of this file; what matters of them here is that each is a call on the   *)
(* session (recorded in cl, the calls made so far) and what it leaves on   *)
(* the entity.  srv is what the server holds: srv.F[o] the fields of the   *)
(* entity o, srv.X[o] whether it still exists.  A result carries the       *)
(* objects' state st, the calls cl and the returned value v.               *)
(***************************************************************************)
OkCl(st, cl, v) == [ok |-> TRUE, st |-> st, cl |-> cl, v |-> v, exc |-> ""]
ErrCl(st, cl, exc) == [ok |-> FALSE, st |-> st, cl |-> cl, v |-> None, exc |-> exc]

\* the call of the session operation op for the entity o
SessionCall(op, o, args) == [call |-> op, o |-> o, args |-> args]

\* what a bulk population of the fields flds of o leaves on o: the fields
\* that are asked for and not held (all of them when forced) are merged from
\* the server
SessionPopulate(sch, srv, st, cl, o, flds, force) ==
    LET wanted == {flds[i] : i \in 1..Len(flds)}
        missing == {f \in wanted : Truthy(force) \/ ~Contains(sch, st.F, o, f)}
        rec == [f \in missing \cap DOMAIN srv.F[o] |-> srv.F[o][f]]
    IN  Bind(UpdateOp(sch, st, o, rec, None, None, 0, <<>>),
             LAMBDA u : IF u.ok THEN OkCl(u.st, cl, None) ELSE ErrCl(u.st, cl, u.exc))

\* session.fetch([o], flds, force=force)
SessionFetch(sch, srv, st, cl, o, flds, force) ==
    SessionPopulate(sch, srv, st,
                    Append(cl, SessionCall("fetch", o, [fields |-> flds, force |-> force])),
                    o, flds, force)

\* session.filter_exists([o], check, force): updates _exists
SessionFilterExists(srv, st, cl, o, check, force) ==
    LET ask == Truthy(force) \/ (Truthy(check) /\ st.X[o] = None)
        cl1 == Append(cl, SessionCall("filter_exists", o,
                                      [check |-> check, force |-> force]))
    IN  OkCl(IF ask THEN [st EXCEPT !.X[o] = VBool(srv.X[o])] ELSE st, cl1, None)

\* the names of the "important" fields that session.fetch_core asks for
CoreFields == <<<<"name">>>>

\* Entity.exists(check, force)
ExistsOp(sch, srv, st, cl, o, a) ==
    IF Get(sch, st.F, o, KId, None) = None \/ Get(sch, st.F, o, KType, None) = None
    THEN OkCl(st, cl, VBool(FALSE))
    ELSE Bind(SessionFilterExists(srv, st, cl, o, a.check, a.force),
              LAMBDA r : OkCl(r.st, r.cl, r.st.X[o]))

\* Entity.get(fields, default) as a lazy accessor
GetOp(sch, srv, st, cl, o, a) ==
    IF a.single THEN OkCl(st, cl, Get(sch, st.F, o, a.fields[1], a.default))
    ELSE OkCl(st, cl, VList([i \in 1..Len(a.fields) |->
                                Get(sch, st.F, o, a.fields[i], a.default)]))

\* Entity.fetch(fields, default, force)
FetchOp(sch, srv, st, cl, o, a) ==
    Bind(SessionFetch(sch, srv, st, cl, o, a.fields, a.force),
         LAMBDA r :
           IF ~r.ok THEN r
           ELSE GetOp(sch, srv, r.st, r.cl, o, a))

\* Entity.fetch_core()
FetchCoreOp(sch, srv, st, cl, o, a) ==
    SessionPopulate(sch, srv, st, Append(cl, SessionCall("fetch_core", o, <<>>)),
                    o, CoreFields, VBool(FALSE))

\* Entity.fetch_heirarchy(): returns what the session returns
FetchHeirarchyOp(sch, srv, st, cl, o, a) ==
    OkCl(st, Append(cl, SessionCall("fetch_heirarchy", o, <<>>)), VList(<<>>))

\* Entity.fetch_backrefs(type_, field)
FetchBackrefsOp(sch, srv, st, cl, o, a) ==
    OkCl(st, Append(cl, SessionCall("fetch_backrefs", o, <<a.type_, a.field>>)), None)

\* session.parent_fields: the parent field of each type; the root type has
\* none
ParentFields ==
    [ty \in {"Task", "Shot", "Project"} |->
        IF ty = "Project" THEN None ELSE VStr("parent")]

\* the arguments of a call of fetch for the fields flds
FetchArgs(flds) ==
    [fields |-> flds, default |-> None, force |-> VBool(FALSE), single |-> FALSE]

\* Entity.parent(fetch, extra)
ParentOp(sch, srv, st, cl, o, a) ==
    LET ty == GetItem(sch, st.F, o, KType)
    IN  IF ~ty.ok \/ ty.v.t # "str" \/ ty.v.s \notin DOMAIN ParentFields
        THEN ErrCl(st, cl, "KeyError")
        ELSE
        LET field == ParentFields[ty.v.s]
        IN  IF ~Truthy(field) THEN OkCl(st, cl, None)
            ELSE IF ~Truthy(a.fetch)
            THEN OkCl(st, cl, Get(sch, st.F, o, K(field.s), None))
            ELSE Bind(FetchOp(sch, srv, st, cl, o, FetchArgs(a.extra \o <<K(field.s)>>)),
                      LAMBDA f :
                        IF ~f.ok THEN f
                        ELSE Bind(SetDefault(sch, f.st, o, K(field.s), None),
                                  LAMBDA d :
                                    IF ~d.ok THEN ErrCl(d.st, f.cl, d.exc)
                                    ELSE OkCl(d.st, f.cl,
                                              Get(sch, d.st.F, o, K(field.s), None))))

RECURSIVE ProjectOp(_, _, _, _, _, _)

\* Entity.project(fetch)
ProjectOp(sch, srv, st, cl, o, a) ==
    IF GetItem(sch, st.F, o, KType) = Ok(VStr("Project")) THEN OkCl(st, cl, VEnt(o))
    ELSE IF ~GetItem(sch, st.F, o, KType).ok THEN ErrCl(st, cl, "KeyError")
    ELSE IF GetItem(sch, st.F, o, K("project")).ok
    THEN OkCl(st, cl, GetItem(sch, st.F, o, K("project")).v)
    ELSE
    Bind(ParentOp(sch, srv, st, cl, o, [fetch |-> VBool(FALSE), extra |-> <<>>]),
         LAMBDA par :
    IF ~par.ok THEN par
    ELSE
    Bind(IF ~(IsEntity(par.v) /\ Truthy(VDict(par.st.F[par.v.o])))
         THEN OkCl(par.st, par.cl, None)
         ELSE IF par.st.F[par.v.o][KType] = VStr("Project")
         THEN OkCl(par.st, par.cl, par.v)
         ELSE ProjectOp(sch, srv, par.st, par.cl, par.v.o, [fetch |-> VBool(TRUE)]),
         LAMBDA up :
    IF ~up.ok THEN up
    ELSE IF Truthy(up.v)
    THEN Bind(SetItem(sch, up.st, o, K("project"), up.v),
              LAMBDA s : IF s.ok THEN OkCl(s.st, up.cl, up.v)
                         ELSE ErrCl(s.st, up.cl, s.exc))
    ELSE IF Truthy(a.fetch)
    THEN Bind(FetchOp(sch, srv, up.st, up.cl, o, FetchArgs(<<K("project")>>)),
              LAMBDA f :
                IF ~f.ok THEN f
                ELSE Bind(SetDefault(sch, f.st, o, K("project"), None),
                          LAMBDA d : IF d.ok THEN OkCl(d.st, f.cl, d.v)
                                     ELSE ErrCl(d.st, f.cl, d.exc)))
    ELSE OkCl(up.st, up.cl, None)))

\* the lazy accessors by name
Accessors ==
    {"exists", "get", "fetch", "fetch_core", "fetch_heirarchy", "fetch_backrefs",
     "parent", "project"}

\* func(self, *args, **kwargs) for the accessor named func
RunFunc(sch, srv, st, cl, func, o, a) ==
    CASE func = "exists" -> ExistsOp(sch, srv, st, cl, o, a)
      [] func = "get" -> GetOp(sch, srv, st, cl, o, a)
      [] func = "fetch" -> FetchOp(sch, srv, st, cl, o, a)
      [] func = "fetch_core" -> FetchCoreOp(sch, srv, st, cl, o, a)
      [] func = "fetch_heirarchy" -> FetchHeirarchyOp(sch, srv, st, cl, o, a)
      [] func = "fetch_backrefs" -> FetchBackrefsOp(sch, srv, st, cl, o, a)
      [] func = "parent" -> ParentOp(sch, srv, st, cl, o, a)
      [] func = "project" -> ProjectOp(sch, srv, st, cl, o, a)

\* the handle that session._submit_concurrent returns for its n-th task
VHandle(n) == [t |-> "handle", n |-> n]

\* a result of a wrapped call: the result of the function, or a handle, and
\* the tasks submitted
WithTasks(r, tk) ==
    [ok |-> r.ok, st |-> r.st, cl |-> r.cl, v |-> r.v, exc |-> r.exc, tk |-> tk]

\* Asyncable gone wrong: the deferred call also runs the function
AsyncableEager(sch, srv, st, cl, tk, func, o, a, async) ==
    Bind(RunFunc(sch, srv, st, cl, func, o, a),
         LAMBDA r :
           IF Truthy(async)
           THEN WithTasks([r EXCEPT !.v = VHandle(Len(tk) + 1)],
                          Append(tk, [func |-> func, o |-> o, args |-> a]))
           ELSE WithTasks(r, tk))

\* asyncable(func): _wrapped(self, *args, **kwargs) with the keyword async
Asyncable(sch, srv, st, cl, tk, func, o, a, async) ==
    IF Truthy(async)
    THEN WithTasks(OkCl(st, cl, VHandle(Len(tk) + 1)),
                   Append(tk, [func |-> func, o |-> o, args |-> a]))
    ELSE WithTasks(RunFunc(sch, srv, st, cl, func, o, a), tk)

(***************************************************************************)
(* Bounds and input universes                                              *)
(***************************************************************************)
\* timestamps are VDt(0) .. VDt(MaxTime)
MaxTime == 2
\* scalar field values are VInt(1) .. VInt(MaxVal)
MaxVal == 2

Times == {VDt(n) : n \in 0..MaxTime}
Scalars == {VInt(n) : n \in 1..MaxVal}

\* a slot of a dict under construction that stays empty
Absent == [t |-> "absent"]

\* the dict with the filled slots of f
Compact(f) == [k \in {j \in DOMAIN f : f[j] # Absent} |-> f[k]]

\* d1 extended and overridden by d2
Merged(d1, d2) ==
    [k \in DOMAIN d1 \cup DOMAIN d2 |-> IF k \in DOMAIN d2 THEN d2[k] ELSE d1[k]]

KUpdatedAt == <<"updated_at">>
KX == <<"x">>
KParent == <<"parent">>
KDeepId == <<"parent", "Shot", "id">>
KDeepName == <<"parent", "Shot", "name">>
KOtherName == <<"parent", "Task", "name">>

\* the entity that receives the merges, and a Shot it may link to
Receiver == 1
Target == 2
ReceiverId == [k \in {KType, KId} |-> IF k = KType THEN VStr("Task") ELSE VInt(1)]
TargetId == [k \in {KType, KId} |-> IF k = KType THEN VStr("Shot") ELSE VInt(1)]

\* what the receiver may hold before a merge
PriorFields ==
    {Merged(ReceiverId, Compact([k \in {KUpdatedAt, KX, KParent} |->
            CASE k = KUpdatedAt -> u [] k = KX -> x [] OTHER -> p])) :
        u \in Times \cup {Absent}, x \in Scalars \cup {Absent},
        p \in {Absent, None, VEnt(Target)}}

\* the raw record of a Shot as a query returns it inside a link field
ShotStub(id_) ==
    VDict([k \in {KType, KId, <<"name">>} |->
            CASE k = KType -> VStr("Shot") [] k = KId -> VInt(id_)
              [] OTHER -> VStr("sh")])

\* a record of the receiver itself, nested in one of its own link fields
SelfStub == VDict(Merged(ReceiverId, KUpdatedAt :> VDt(MaxTime)))

LinkValues ==
    {None, VInt(1), VEnt(Target), ShotStub(1), ShotStub(2), SelfStub,
     VDict(KId :> VInt(1))}

\* records of scalar fields, with and without a timestamp
ScalarRecords ==
    {Compact([k \in {KUpdatedAt, KX} |-> IF k = KUpdatedAt THEN u ELSE x]) :
        u \in Times \cup {Absent}, x \in Scalars \cup {Absent}}

\* records whose timestamp is an ISO string, no timestamp at all, or an
\* aware datetime one hour east of UTC
OddTimeRecords ==
    {Compact([k \in {KUpdatedAt, KX} |-> IF k = KUpdatedAt THEN u ELSE x]) :
        u \in {VStr("1970-01-01T00:00:01Z"), VStr("yesterday"), VDtz(2, 1)},
        x \in {VInt(1), Absent}}

\* records with a link field
LinkRecords ==
    {Compact([k \in {KUpdatedAt, KParent} |-> IF k = KUpdatedAt THEN u ELSE l]) :
        u \in Times \cup {Absent}, l \in LinkValues}

\* records with deep keys
DeepRecords ==
    {Compact([k \in {KDeepId, KDeepName} |-> IF k = KDeepId THEN i ELSE n]) :
        i \in {Absent, None, VInt(1)}, n \in {Absent, None, VStr("foo")}}
    \cup {Compact([k \in {KParent, KDeepId, KDeepName} |->
                CASE k = KParent -> l [] k = KDeepId -> i [] OTHER -> n]) :
            l \in {None, VInt(1), VEnt(Target), VDict(KId :> VInt(1))},
            i \in {Absent, VInt(1)}, n \in {Absent, None, VStr("foo")}}
    \cup {Merged(KDeepName :> VStr("foo"), KOtherName :> n) : n \in {None, VStr("bar")}}

Records == ScalarRecords \cup OddTimeRecords \cup LinkRecords \cup DeepRecords

\* the keys a record's iteration order ranks: its own and the fields its
\* deep keys add
RankedKeys(rec) ==
    DOMAIN rec \cup {<<k[1]>> : k \in {j \in DOMAIN rec : MatchDeepKey(j)}}

\* the sequences that list every element of S once
RECURSIVE Orders(_)
Orders(S) ==
    IF S = {} THEN {<<>>}
    ELSE UNION {{<<k>> \o rest : rest \in Orders(S \ {k})} : k \in S}

\* how a merge may be called: the override argument and the context timestamp
CallModes ==
    {<<None, None>>, <<VBool(TRUE), None>>, <<VBool(FALSE), None>>, <<None, VDt(1)>>}

(***************************************************************************)
(* The merge engine as a state machine: a receiver with some prior content *)
(* is merged a record (Update), and then the same record again (Again).    *)
(***************************************************************************)
Idle == [op |-> "idle"]

Init ==
    /\ \E f \in PriorFields :
        /\ fields = <<f, TargetId>>
        /\ backrefs = <<EmptyDict,
                        IF DictGet(f, KParent) = VEnt(Target)
                        THEN <<VStr("Task"), KParent>> :> <<Receiver>>
                        ELSE EmptyDict>>
    /\ exists_ = <<None, None>>
    /\ cache = (<<VStr("Task"), VInt(1)>> :> Receiver) @@ (<<VStr("Shot"), VInt(1)>> :> Target)
    /\ schema = "none"
    /\ last = Idle
    /\ tasks = <<>>
    /\ calls = <<>>
    /\ procs = <<>>

Current == Heap(fields, backrefs, exists_, cache)

\* the state and the record of the outcome r of the call named op
Apply(op, rec, mode, ord, r) ==
    /\ fields' = r.st.F
    /\ backrefs' = r.st.B
    /\ exists_' = r.st.X
    /\ cache' = r.st.C
    /\ last' = [op |-> op, o |-> Receiver, rec |-> rec, over |-> mode[1],
                created_at |-> mode[2], ord |-> ord, ok |-> r.ok, exc |-> r.exc,
                do_override |-> r.do_override, log |-> r.log, caller |-> r.caller,
                data |-> r.data, preF |-> fields, preB |-> backrefs]
    /\ UNCHANGED <<schema, tasks, calls, procs>>

\* entity._update(rec, over, created_at)
Update ==
    /\ last.op = "idle"
    /\ \E rec \in Records, mode \in CallModes :
        \E ord \in Orders(RankedKeys(rec)) :
            \E r \in {UpdateOp(schema, Current, Receiver, rec, mode[1], mode[2], 0, ord)} :
                Apply("update", rec, mode, ord, r)

\* the same record merged once more
Again ==
    /\ last.op = "update"
    /\ \E r \in {UpdateOp(schema, Current, Receiver, last.caller, last.over,
                          last.created_at, 0, last.ord)} :
            Apply("again", last.rec, <<last.over, last.created_at>>, last.ord, r)

Next == Update \/ Again

Spec == Init /\ [][Next]_vars

(***************************************************************************)
(* Properties of the merge engine                                          *)
(***************************************************************************)
Merged1 == last.op = "update"

\* the time a timestamp value stands for, -1 for a value that is none
TimeOf(v) ==
    CASE v.t = "dt" -> v.at
      [] v.t = "dtz" -> v.at - v.off
      [] v.t = "str" /\ v.s \in IsoStrings -> IsoTime(v.s)
      [] OTHER -> -1

\* the record of the last merge carries a well-formed updated_at
CarriesTime == KUpdatedAt \in DOMAIN last.rec /\ TimeOf(last.rec[KUpdatedAt]) >= 0

\* the receiver's content before the last merge
Before == last.preF[Receiver]

C2_MergeIdempotent ==
    last.op = "again" => (fields = last.preF /\ backrefs = last.preB)

\* the backref list of the entity t under (the receiver's type, k)
BackrefList(B, t, k) ==
    IF t <= Len(B) /\ <<fields[Receiver][KType], k>> \in DOMAIN B[t]
    THEN B[t][<<fields[Receiver][KType], k>>] ELSE <<>>

\* C3: backref registration.  After a merge, for every field k of the record
\* whose merged value is an Entity T, the receiver is in T's backref index
\* under (the receiver's type, k), whatever the receiver held and whatever
\* the override outcome.
C3_BackrefRegistered ==
    (Merged1 /\ last.ok) =>
        \A i \in 1..Len(last.log) :
            IsEntity(last.log[i].v) =>
                Receiver \in Range(BackrefList(backrefs, last.log[i].v.o, last.log[i].k))

\* C3, amended: the receiver is in T's index whenever the merge assigns k,
\* that is when the override policy resolves to apply or the receiver holds
\* no value for k; when the receiver holds a value for k and the merge does
\* not override, the merge files nothing on T.
C3_BackrefRegisteredWhenAssigned ==
    (Merged1 /\ last.ok) =>
        \A i \in 1..Len(last.log) :
            LET k == last.log[i].k
                v == last.log[i].v
                assigns == last.do_override \/ ~Contains(schema, last.preF, Receiver, k)
            IN  IsEntity(v) =>
                    /\ assigns => Receiver \in Range(BackrefList(backrefs, v.o, k))
                    /\ ~assigns => BackrefList(backrefs, v.o, k) = BackrefList(last.preB, v.o, k)

\* the receiver held a value for parent, a newer record linked it to a Shot,
\* and the receiver is filed on that Shot
C3_AssignedWitness ==
    /\ Merged1 /\ last.ok /\ last.over = None
    /\ KParent \in DOMAIN Before /\ Before[KParent] = None
    /\ CarriesTime /\ KUpdatedAt \in DOMAIN Before
    /\ TimeOf(last.rec[KUpdatedAt]) > Before[KUpdatedAt].at
    /\ fields[Receiver][KParent] = VEnt(Target)
    /\ Receiver \in Range(BackrefList(backrefs, Target, KParent))

\* the two records of the null deep link
NullIdRecord == KDeepId :> None
NullIdAndNameRecord == (KDeepId :> None) @@ (KDeepName :> VStr("foo"))

\* C4: null deep-link handling.  update({"parent.Shot.id": None}) and
\* update({"parent.Shot.id": None, "parent.Shot.name": "foo"}) complete and
\* leave parent == None, in whatever order the keys are processed.
C4_NullDeepLink ==
    (Merged1 /\ last.over = None /\ last.created_at = None
        /\ last.rec \in {NullIdRecord, NullIdAndNameRecord}) =>
        (last.ok /\ KParent \in DOMAIN fields[Receiver]
            /\ fields[Receiver][KParent] = None)

\* C6: a merge does not mutate its input.  The record passed to the merge,
\* nested dicts included, is after the call what it was before.
C6_InputNotMutated == Merged1 => last.caller = last.rec


(***************************************************************************)
(* Identity as a state machine: two instances built by Entity(type_, id_,  *)
(* session), each with any type, any id and any other content, on which    *)
(* hash(), cache_key and is_same_entity are called.                        *)
(***************************************************************************)
\* ids are None, VInt(0) .. VInt(MaxId)
MaxId == 1

Types == {None, VStr("Shot"), VStr("Task")}
Ids == {None} \cup {VInt(n) : n \in 0..MaxId}

\* what Entity.__init__ stores, and a field x set afterwards
IdentityFields ==
    {Compact([k \in {KType, KId, KX} |->
            CASE k = KType -> t [] k = KId -> i [] OTHER -> x]) :
        t \in Types, i \in Ids, x \in Scalars \cup {Absent}}

\* the two instances
First == Receiver
Second == Target
Instances == {First, Second}

InitIdentity ==
    /\ fields \in {<<f, g>> : f \in IdentityFields, g \in IdentityFields}
    /\ backrefs \in {<<EmptyDict, b>> :
            b \in {EmptyDict, <<VStr("Task"), KParent>> :> <<First>>}}
    /\ exists_ \in {<<e, None>> : e \in {None, VBool(TRUE), VBool(FALSE)}}
    /\ cache = EmptyDict
    /\ schema = "none"
    /\ last = Idle
    /\ tasks = <<>>
    /\ calls = <<>>
    /\ procs = <<>>

\* hash(o)
DoHash ==
    /\ \E o \in Instances :
        last' = [op |-> "hash", o |-> o, r |-> HashOf(fields, o)]
    /\ UNCHANGED <<fields, backrefs, exists_, cache, schema, tasks, calls, procs>>

\* o.cache_key
DoCacheKey ==
    /\ \E o \in Instances :
        last' = [op |-> "cache_key", o |-> o, r |-> CacheKey(fields, o)]
    /\ UNCHANGED <<fields, backrefs, exists_, cache, schema, tasks, calls, procs>>

\* o.is_same_entity(other)
DoIsSameEntity ==
    /\ \E o \in Instances, other \in Instances :
        last' = [op |-> "is_same_entity", o |-> o, other |-> other,
                 r |-> IsSameEntity(schema, fields, o, other)]
    /\ UNCHANGED <<fields, backrefs, exists_, cache, schema, tasks, calls, procs>>

NextIdentity == DoHash \/ DoCacheKey \/ DoIsSameEntity

SpecIdentity == InitIdentity /\ [][NextIdentity]_vars

(***************************************************************************)
(* Properties of identity                                                  *)
(***************************************************************************)
\* the two instances have the same (type, id)
SameIdentity(o, p) ==
    fields[o][KType] = fields[p][KType] /\ fields[o][KId] = fields[p][KId]

\* C7: the hash is a function of identity only.  An entity whose type and id
\* are both set (not None) hashes, and to the hash of every instance with the
\* same (type, id), whatever else either holds; an entity missing type or id
\* does not hash.
C7_HashIdentityOnly ==
    last.op = "hash" =>
        IF fields[last.o][KType] # None /\ fields[last.o][KId] # None
        THEN /\ last.r.ok
             /\ \A p \in Instances :
                    SameIdentity(last.o, p) => HashOf(fields, p) = last.r
        ELSE ~last.r.ok

\* C7, amended: the same with "set" read as the code reads it: the type is
\* a non-empty string and the id is a non-zero number; an entity whose type
\* or id is None, empty or zero does not hash.
C7_HashTruthyIdentityOnly ==
    last.op = "hash" =>
        IF Truthy(fields[last.o][KType]) /\ Truthy(fields[last.o][KId])
        THEN /\ last.r.ok
             /\ \A p \in Instances :
                    SameIdentity(last.o, p) => HashOf(fields, p) = last.r
        ELSE ~last.r.ok

\* an instance was hashed while the other one has the same (type, id) and
\* another x
C7_SameIdentityWitness ==
    /\ last.op = "hash" /\ last.r.ok
    /\ SameIdentity(First, Second)
    /\ KX \in DOMAIN fields[First] /\ KX \in DOMAIN fields[Second]
    /\ fields[First][KX] # fields[Second][KX]

\* C8: is_same_entity(other) is true exactly when the types are equal and
\* the ids are equal, whatever the other fields, the backrefs and the
\* existence flags.
C8_IsSameEntity ==
    last.op = "is_same_entity" =>
        (last.r <=> SameIdentity(last.o, last.other))

\* two instances with the same (type, id) that differ in x, in backrefs and
\* in existence flag were found the same
C8_SameWitness ==
    /\ last.op = "is_same_entity" /\ last.o # last.other /\ last.r
    /\ DictGet(fields[First], KX) # DictGet(fields[Second], KX)
    /\ backrefs[First] # backrefs[Second]
    /\ exists_[First] # exists_[Second]

\* the entity o misses its type or its id: it is None or, as cache_key also
\* reads it, empty or zero
Detached(o) == ~Truthy(fields[o][KType]) \/ ~Truthy(fields[o][KId])

\* C10: detached cache keys fall back to object identity.  The cache_key of
\* an entity missing type or id (type only, id only, or neither) is equal to
\* the cache_key of no other detached instance; the cache_key of an entity
\* with both is (type, id).
C10_DetachedCacheKey ==
    last.op = "cache_key" =>
        IF Detached(last.o)
        THEN \A p \in Instances \ {last.o} :
                Detached(p) => CacheKey(fields, p) # last.r
        ELSE last.r = <<fields[last.o][KType], fields[last.o][KId]>>

(***************************************************************************)
(* Reads as a state machine: a Task whose parent field holds nothing, a    *)
(* scalar, a nested record or an Entity, read by plain and deep names,     *)
(* without a schema and with one that resolves "$alias" to "x".            *)
(***************************************************************************)
KName == <<"name">>
KProject == <<"project">>
KAlias == <<"$alias">>
KDeepCode == <<"parent", "Shot", "project", "Project", "code">>
KDeepAlias == <<"$alias", "Shot", "name">>
KDeepEmpty == <<"parent", "Shot", "">>

\* the record of a Project inside a Shot
ProjectStub == VDict((KType :> VStr("Project")) @@ (KId :> VInt(1)) @@ (<<"code">> :> VStr("pr")))

\* what a Shot may hold
ShotFields ==
    {Merged(TargetId, Compact([k \in {KName, KProject} |-> IF k = KName THEN n ELSE p])) :
        n \in {Absent, VStr("sh")}, p \in {Absent, None, ProjectStub}}

\* what the parent field of the Task may hold
ParentValues ==
    {Absent, None, VInt(1), VEnt(Target), VDict(KId :> VInt(1))}
    \cup {VDict(f) : f \in ShotFields}

ReadFields ==
    {Merged(ReceiverId, Compact([k \in {KX, KParent} |-> IF k = KX THEN x ELSE p])) :
        x \in {Absent, VInt(1)}, p \in ParentValues}

\* the names that are read
ReadKeys ==
    {KType, KX, KAlias, KParent, KDeepId, KDeepName, KOtherName, KDeepCode,
     KDeepAlias, KDeepEmpty}

InitRead ==
    /\ fields \in {<<f, g>> : f \in ReadFields, g \in ShotFields}
    /\ backrefs = <<EmptyDict, EmptyDict>>
    /\ exists_ = <<None, None>>
    /\ cache = (<<VStr("Task"), VInt(1)>> :> Receiver) @@ (<<VStr("Shot"), VInt(1)>> :> Target)
    /\ schema \in {"none", "alias"}
    /\ last = Idle
    /\ tasks = <<>>
    /\ calls = <<>>
    /\ procs = <<>>

\* entity[key]
DoGetItem ==
    /\ \E key \in ReadKeys :
        last' = [op |-> "getitem", o |-> Receiver, key |-> key,
                 r |-> GetItem(schema, fields, Receiver, key)]
    /\ UNCHANGED <<fields, backrefs, exists_, cache, schema, tasks, calls, procs>>

NextRead == DoGetItem

SpecRead == InitRead /\ [][NextRead]_vars

(***************************************************************************)
(* Properties of reads                                                     *)
(***************************************************************************)
\* reading the name rest on the nested record v: an Entity is read as an
\* Entity is, a plain record hop by hop
ReadOn(v, rest) ==
    IF IsEntity(v) THEN GetItem(schema, fields, v.o, rest)
    ELSE Walk(fields, v.d, rest)

\* C9: deep-link read.  Reading a.TypeA.rest gives what reading the field a,
\* checking that it is a nested record of type TypeA and reading rest on
\* that record gives; when a hop is missing, is no nested record or has
\* another type, the read fails with a KeyError of the full name the caller
\* asked for, never a partial or rewritten name.
C9_DeepLinkRead ==
    last.op = "getitem" =>
        /\ MatchDeepRead(last.key) =>
            LET first == GetItem(schema, fields, last.o, <<last.key[1]>>)
                typed == /\ first.ok
                         /\ IsDict(first.v)
                         /\ DictGet(DictOf(fields, first.v), KType) = VStr(last.key[2])
            IN  IF typed /\ ReadOn(first.v, Rest(last.key)).ok
                THEN last.r = Ok(ReadOn(first.v, Rest(last.key)).v)
                ELSE ~last.r.ok
        /\ ~last.r.ok => (last.r.exc = "KeyError" /\ last.r.arg = last.key)

(***************************************************************************)
(* Export as a state machine: a Shot and a Task that may link to each      *)
(* other, to themselves, through a list or through a plain record; the     *)
(* Task may be one that has no id yet.                                     *)
(***************************************************************************)
KFriend == <<"friend">>

\* the Shot's fields
ExportShotFields ==
    {Merged(TargetId, Compact([k \in {KFriend, KX} |-> IF k = KFriend THEN f ELSE x])) :
        f \in {Absent, VEnt(First), VEnt(Second), VList(<<VEnt(Second), VEnt(First)>>),
               VDict(KFriend :> VEnt(Second))},
        x \in Scalars \cup {Absent}}

\* the Task's fields
ExportTaskFields ==
    {Compact([k \in {KType, KId, KFriend, KX} |->
            CASE k = KType -> VStr("Task") [] k = KId -> i
              [] k = KFriend -> f [] OTHER -> x]) :
        i \in {None} \cup {VInt(n) : n \in 1..MaxId},
        f \in {Absent, VEnt(First), VEnt(Second)},
        x \in Scalars \cup {Absent}}

InitExport ==
    /\ fields \in {<<f, g>> : f \in ExportShotFields, g \in ExportTaskFields}
    /\ backrefs = <<EmptyDict, EmptyDict>>
    /\ exists_ = <<None, None>>
    /\ cache = EmptyDict
    /\ schema = "none"
    /\ last = Idle
    /\ tasks = <<>>
    /\ calls = <<>>
    /\ procs = <<>>

\* o.as_dict()
DoAsDict ==
    /\ \E o \in Instances :
        last' = [op |-> "as_dict", o |-> o, r |-> AsDict(fields, o)]
    /\ UNCHANGED <<fields, backrefs, exists_, cache, schema, tasks, calls, procs>>

NextExport == DoAsDict

SpecExport == InitExport /\ [][NextExport]_vars

(***************************************************************************)
(* Properties of export                                                    *)
(***************************************************************************)
\* the Shot and the Task are each other's friend
Cycle == /\ DictGet(fields[First], KFriend) = VEnt(Second)
         /\ DictGet(fields[Second], KFriend) = VEnt(First)

\* C5: cycle-safe export.  as_dict on any graph of linked entities returns
\* the exported entity expanded with its full field set; on the cycle
\* A.friend = B, B.friend = A the export of A holds B expanded with its
\* full field set and B's friend equal to A's minimal stub.
C5_CycleSafeExport ==
    last.op = "as_dict" =>
        /\ last.r.ok
        /\ DOMAIN last.r.v.d = DOMAIN fields[last.o]
        /\ \A k \in DOMAIN fields[last.o] :
                ~IsDict(fields[last.o][k]) /\ fields[last.o][k].t # "list"
                    => last.r.v.d[k] = fields[last.o][k]
        /\ (Cycle /\ last.o = First) =>
                last.r.v.d[KFriend] =
                    VDict([fields[Second] EXCEPT ![KFriend] = Minimal(fields, First)])

(***************************************************************************)
(* The lazy accessors as a state machine: a Task, its Shot and the Shot's  *)
(* Project, each holding some of its links; accessors are called inline or *)
(* deferred, and the session's facility runs the deferred ones later.      *)
(***************************************************************************)
\* a behaviour makes at most MaxCalls calls of accessors
MaxCalls == 1

Root == 3
RootId == [k \in {KType, KId} |-> IF k = KType THEN VStr("Project") ELSE VInt(1)]

\* the raw records of the Shot and of the Project as the server returns them
ShotLink == VDict(TargetId)
RootLink == VDict(RootId)

\* what the server holds
Server ==
    [F |-> << (KParent :> ShotLink) @@ (KProject :> RootLink) @@ (KName :> VStr("t")),
              (KParent :> None) @@ (KProject :> RootLink) @@ (KName :> VStr("sh")),
              KName :> VStr("pr") >>,
     X |-> <<TRUE, TRUE, FALSE>>]

\* what the Task and the Shot may hold of their links
LazyFields(id, up) ==
    {Merged(id, Compact([k \in {KParent, KProject} |-> IF k = KParent THEN p ELSE j])) :
        p \in {Absent, None, VEnt(up)}, j \in {Absent, VEnt(Root)}}

\* the calls that are made: accessor and arguments
LazyCalls ==
    {<<"exists", [check |-> VBool(c), force |-> VBool(FALSE)]>> : c \in BOOLEAN}
    \cup {<<"get", [fields |-> <<KParent>>, default |-> VInt(1), single |-> TRUE]>>,
          <<"fetch", [fields |-> <<KProject>>, default |-> None,
                      force |-> VBool(FALSE), single |-> TRUE]>>,
          <<"fetch_core", <<>>>>, <<"fetch_heirarchy", <<>>>>,
          <<"fetch_backrefs", [type_ |-> VStr("Task"), field |-> VStr("parent")]>>}
    \cup {<<"parent", [fetch |-> VBool(f), extra |-> <<>>]>> : f \in BOOLEAN}
    \cup {<<"project", [fetch |-> VBool(f)]>> : f \in BOOLEAN}

InitLazy ==
    /\ fields \in {<<f, g, RootId>> :
            f \in LazyFields(ReceiverId, Target), g \in LazyFields(TargetId, Root)}
    /\ backrefs = <<EmptyDict, EmptyDict, EmptyDict>>
    /\ exists_ = <<None, None, None>>
    /\ cache = (<<VStr("Task"), VInt(1)>> :> Receiver)
                @@ (<<VStr("Shot"), VInt(1)>> :> Target)
                @@ (<<VStr("Project"), VInt(1)>> :> Root)
    /\ schema = "none"
    /\ last = Idle
    /\ tasks = <<>>
    /\ calls = <<>>
    /\ procs = <<>>

\* the calls of accessors made so far
CallsMade == IF last.op = "idle" THEN 0 ELSE last.n

\* the state and the record of the outcome r of a call or of a task
ApplyLazy(op, func, o, a, async, r) ==
    /\ fields' = r.st.F
    /\ backrefs' = r.st.B
    /\ exists_' = r.st.X
    /\ cache' = r.st.C
    /\ calls' = r.cl
    /\ last' = [op |-> op, func |-> func, o |-> o, args |-> a, async |-> async,
                ok |-> r.ok, exc |-> r.exc, v |-> r.v,
                preF |-> fields, preB |-> backrefs, preX |-> exists_,
                preTasks |-> tasks,
                n |-> IF op = "call" THEN CallsMade + 1 ELSE CallsMade]
    /\ UNCHANGED <<schema, procs>>

\* entity.func(*args, async=async)
Call ==
    /\ CallsMade < MaxCalls
    /\ \E c \in LazyCalls, o \in {Receiver, Target, Root}, async \in {None, VBool(TRUE)} :
        \E r \in {Asyncable(schema, Server, Current, <<>>, tasks, c[1], o, c[2], async)} :
            /\ tasks' = r.tk
            /\ ApplyLazy("call", c[1], o, c[2], async, r)

\* the session's facility runs the task it was given first
RunTask ==
    /\ tasks # <<>>
    /\ \E r \in {RunFunc(schema, Server, Current, <<>>, Head(tasks).func,
                         Head(tasks).o, Head(tasks).args)} :
            /\ tasks' = Tail(tasks)
            /\ ApplyLazy("task", Head(tasks).func, Head(tasks).o, Head(tasks).args,
                         None, r)

NextLazy == Call \/ RunTask

SpecLazy == InitLazy /\ [][NextLazy]_vars

(***************************************************************************)
(* Properties of the lazy accessors                                        *)
(***************************************************************************)
\* C11: deferred dispatch.  A lazy accessor called in deferred mode submits
\* one task with that operation and its arguments and returns the handle of
\* the facility; fields, backref indices and existence flags are as before
\* and no call is made on the session.  Called inline it submits nothing and
\* returns what the operation returns after running it.
C11_DeferredDispatch ==
    last.op = "call" =>
        IF Truthy(last.async)
        THEN /\ tasks = Append(last.preTasks,
                               [func |-> last.func, o |-> last.o, args |-> last.args])
             /\ last.ok /\ last.v = VHandle(Len(tasks))
             /\ fields = last.preF /\ backrefs = last.preB /\ exists_ = last.preX
             /\ calls = <<>>
        ELSE /\ tasks = last.preTasks
             /\ LET r == RunFunc(schema, Server,
                                 Heap(last.preF, last.preB, last.preX, cache),
                                 <<>>, last.func, last.o, last.args)
                IN  /\ last.ok = r.ok /\ last.v = r.v
                    /\ fields = r.st.F /\ exists_ = r.st.X /\ calls = r.cl

\* a deferred fetch was submitted for an entity that does not hold the
\* field, and nothing was fetched
C11_DeferredWitness ==
    /\ last.op = "call" /\ Truthy(last.async) /\ last.func = "fetch"
    /\ KProject \notin DOMAIN fields[last.o]
    /\ Len(tasks) = 1 /\ calls = <<>>

\* C17: project(fetch=false) makes no network access.  A call of project
\* with fetching disabled invokes the session's fetch for no entity; it
\* returns the project found locally or nothing.
C17_ProjectNoFetch ==
    (last.op = "call" /\ ~Truthy(last.async) /\ last.func = "project"
        /\ ~Truthy(last.args.fetch)) =>
        /\ calls = <<>>
        /\ last.ok
        /\ last.v = None \/ (IsEntity(last.v) /\ fields[last.v.o][KType] = VStr("Project"))

(***************************************************************************)
(* Sequences of operations on one entity: merges, direct assignments and   *)
(* setdefault calls, in any order.                                         *)
(***************************************************************************)
\* a behaviour makes at most MaxSteps operations
MaxSteps == 2

KCreatedAt == <<"created_at">>

\* what the receiver holds at first
SeqFields ==
    {Merged(ReceiverId, Compact([k \in {KUpdatedAt, KParent} |->
            IF k = KUpdatedAt THEN u ELSE p])) :
        u \in Times \cup {Absent}, p \in {Absent, None, VEnt(Target)}}

\* the records merged: a timestamp or none, a link or none
SeqRecords ==
    {Compact([k \in {KUpdatedAt, KParent} |-> IF k = KUpdatedAt THEN u ELSE l]) :
        u \in Times \cup {Absent},
        l \in {Absent, None, VEnt(Target), ShotStub(2), SelfStub}}

\* the assignments made: a key and a value
SeqItems ==
    ({KUpdatedAt, KCreatedAt}
        \X {VDt(1), VStr("1970-01-01T00:00:01Z"), VStr("yesterday"), None})
    \cup ({KParent} \X {None, VInt(1), VEnt(Target), ShotStub(2)})

InitSeq ==
    /\ \E f \in SeqFields :
        /\ fields = <<f, TargetId>>
        /\ backrefs = <<EmptyDict,
                        IF DictGet(f, KParent) = VEnt(Target)
                        THEN <<VStr("Task"), KParent>> :> <<Receiver>>
                        ELSE EmptyDict>>
    /\ exists_ = <<None, None>>
    /\ cache = (<<VStr("Task"), VInt(1)>> :> Receiver) @@ (<<VStr("Shot"), VInt(1)>> :> Target)
    /\ schema = "none"
    /\ last = Idle
    /\ tasks = <<>>
    /\ calls = <<>>
    /\ procs = <<>>

\* the operations made so far
Steps == IF last.op = "idle" THEN 0 ELSE last.n

\* the state and the record of the outcome r of the operation op
ApplySeq(op, key, value, rec, over, r) ==
    /\ fields' = r.st.F
    /\ backrefs' = r.st.B
    /\ exists_' = r.st.X
    /\ cache' = r.st.C
    /\ last' = [op |-> op, o |-> Receiver, key |-> key, value |-> value, rec |-> rec,
                over |-> over, ok |-> r.ok, exc |-> IF r.ok THEN "" ELSE r.exc,
                preF |-> fields, preB |-> backrefs, n |-> Steps + 1]
    /\ UNCHANGED <<schema, tasks, calls, procs>>

\* entity._update(rec, over)
Merge ==
    /\ Steps < MaxSteps
    /\ \E rec \in SeqRecords, over \in {None, VBool(TRUE), VBool(FALSE)} :
        \E ord \in Orders(RankedKeys(rec)) :
            \E r \in {UpdateOp(schema, Current, Receiver, rec, over, None, 0, ord)} :
                ApplySeq("update", <<>>, None, rec, over, r)

\* entity[key] = value
Assign ==
    /\ Steps < MaxSteps
    /\ \E it \in SeqItems :
        \E r \in {SetItem(schema, Current, Receiver, it[1], it[2])} :
            ApplySeq("setitem", it[1], it[2], EmptyDict, None, r)

\* entity.setdefault(key, value)
Default ==
    /\ Steps < MaxSteps
    /\ \E it \in SeqItems :
        \E r \in {SetDefault(schema, Current, Receiver, it[1], it[2])} :
            ApplySeq("setdefault", it[1], it[2], EmptyDict, None, r)

NextSeq == Merge \/ Assign \/ Default

SpecSeq == InitSeq /\ [][NextSeq]_vars

(***************************************************************************)
(* Properties of sequences of operations                                   *)
(***************************************************************************)
\* the last operation assigned a timestamp field a string that is no time
AssignedUnparseable ==
    /\ last.op = "setitem"
    /\ last.key \in {KUpdatedAt, KCreatedAt}
    /\ last.value.t = "str" /\ last.value.s \notin IsoStrings

\* C12: soft coercion failure is non-fatal.  Assigning to updated_at or
\* created_at a value that cannot be parsed as a timestamp completes, and the
\* field then holds the raw value.
C12_SoftCoercion ==
    AssignedUnparseable =>
        /\ last.ok
        /\ DictGet(fields[Receiver], last.key) = last.value

\* s is the beginning of t
IsPrefix(s, t) == Len(s) <= Len(t) /\ \A i \in 1..Len(s) : s[i] = t[i]

\* C16: the backref index is append-only.  Whatever the operation (merge,
\* assignment, setdefault) and whatever it overwrites, every entity keeps
\* every key of its backref index and every entry under it, in place.
C16_BackrefAppendOnly ==
    last.op # "idle" =>
        \A t \in DOMAIN last.preB :
            \A b \in DOMAIN last.preB[t] :
                /\ b \in DOMAIN backrefs[t]
                /\ IsPrefix(last.preB[t][b], backrefs[t][b])

\* the receiver's link to the Shot was overwritten, and the Shot still
\* lists the receiver
C16_OverwrittenWitness ==
    /\ last.op \in {"setitem", "update"} /\ last.ok
    /\ DictGet(last.preF[Receiver], KParent) = VEnt(Target)
    /\ KParent \in DOMAIN fields[Receiver]
    /\ fields[Receiver][KParent] # VEnt(Target)
    /\ <<VStr("Task"), KParent>> \in DOMAIN backrefs[Target]
    /\ InList(fields, backrefs[Target][<<VStr("Task"), KParent>>], Receiver)

(***************************************************************************)
(* Further properties of the merge engine (specification Spec)             *)
(***************************************************************************)
\* C13: deep keys are always expanded away.  After a merge the receiver
\* stores no field whose name has the form field.Type.subfield.
C13_DeepKeysExpanded ==
    (Merged1 /\ last.ok) =>
        \A k \in DOMAIN fields[Receiver] : ~MatchDeepKey(k)

\* the deep keys of the record of the last merge whose field the record
\* holds as a value that is no nested record
Collisions ==
    {k \in DOMAIN last.rec :
        /\ MatchDeepKey(k)
        /\ <<k[1]>> \in DOMAIN last.rec
        /\ ~IsDict(last.rec[<<k[1]>>])}

\* C14: a deep-key collision is fatal and changes nothing.  A merge of a
\* record with a deep key field.Type.subfield, of any value, whose field
\* holds a value that is no nested record fails with an input error, and
\* fields and backref indices are as before.
C14_CollisionFatal ==
    (Merged1 /\ Collisions # {}) =>
        /\ ~last.ok /\ last.exc = "ValueError"
        /\ fields = last.preF
        /\ backrefs = last.preB

\* what the setter stores for the merged value v under the key k
Stored(k, v) ==
    IF k \in {KUpdatedAt, <<"created_at">>} /\ ParseIsotime(v).ok
    THEN ParseIsotime(v).v ELSE v

\* the last merge was refused for its input: a malformed record or timestamp
InputError == ~last.ok /\ last.exc \in {"ValueError", "TypeError"}

\* C15: a non-overriding merge only fills gaps.  When override is forced
\* false, or auto-resolves to no override, every field the receiver held
\* keeps its value and every field of the record that the receiver did not
\* hold is assigned the record's merged value.
C15_FillsGaps ==
    (Merged1 /\ ~InputError
        /\ (last.over = VBool(FALSE) \/ (last.over = None /\ ~last.do_override))) =>
        /\ \A k \in DOMAIN Before :
                k \in DOMAIN fields[Receiver] /\ fields[Receiver][k] = Before[k]
        /\ \A k \in {j \in DOMAIN last.data : ~MatchDeepKey(j)} \ DOMAIN Before :
                /\ k \in DOMAIN fields[Receiver]
                /\ \E i \in 1..Len(last.log) :
                        /\ last.log[i].k = k
                        /\ fields[Receiver][k] = Stored(k, last.log[i].v)

\* C19: the stored timestamp never goes backwards.  Under auto override a
\* receiver that holds an updated_at holds one that is no older after a
\* merge, and a merge of a record whose updated_at is older or equal leaves
\* the stored one as it was.
C19_TimestampMonotone ==
    (Merged1 /\ last.over = None /\ KUpdatedAt \in DOMAIN Before
        /\ TimeOf(Before[KUpdatedAt]) >= 0) =>
        /\ KUpdatedAt \in DOMAIN fields[Receiver]
        /\ TimeOf(fields[Receiver][KUpdatedAt]) >= TimeOf(Before[KUpdatedAt])
        /\ (CarriesTime /\ TimeOf(last.rec[KUpdatedAt]) <= TimeOf(Before[KUpdatedAt])
                => fields[Receiver][KUpdatedAt] = Before[KUpdatedAt])

(***************************************************************************)
(* Two records merged in both orders.  The receiver is merged R1 and then  *)
(* R2; last.other is the state of a copy of the session that is merged R2  *)
(* and then R1.                                                            *)
(***************************************************************************)
KY == <<"y">>

\* what the receiver holds at first: no updated_at
OrderFields ==
    {Merged(ReceiverId, Compact(KX :> x)) : x \in Scalars \cup {Absent}}

\* records of scalar fields with a timestamp: a naive datetime, an ISO
\* string, or an aware datetime one hour east of UTC
OrderRecords ==
    {Compact([k \in {KUpdatedAt, KX, KY} |->
            CASE k = KUpdatedAt -> u [] k = KX -> x [] OTHER -> y]) :
        u \in Times \cup {VStr("1970-01-01T00:00:01Z"), VDtz(2, 1)},
        x \in Scalars \cup {Absent}, y \in {VInt(1), Absent}}

InitOrder ==
    /\ fields \in {<<f, TargetId>> : f \in OrderFields}
    /\ backrefs = <<EmptyDict, EmptyDict>>
    /\ exists_ = <<None, None>>
    /\ cache = (<<VStr("Task"), VInt(1)>> :> Receiver) @@ (<<VStr("Shot"), VInt(1)>> :> Target)
    /\ schema = "none"
    /\ last = Idle
    /\ tasks = <<>>
    /\ calls = <<>>
    /\ procs = <<>>

\* the state and the record of the outcomes: r of this session, q of the copy
ApplyOrder(op, r1, r2, r, q) ==
    /\ fields' = r.st.F
    /\ backrefs' = r.st.B
    /\ exists_' = r.st.X
    /\ cache' = r.st.C
    /\ last' = [op |-> op, r1 |-> r1, r2 |-> r2, ok |-> r.ok /\ q.ok,
                other |-> q.st,
                start |-> IF op = "first" THEN fields[Receiver] ELSE last.start]
    /\ UNCHANGED <<schema, tasks, calls, procs>>

\* entity._update(R1) here, entity._update(R2) on the copy
MergeFirst ==
    /\ last.op = "idle"
    /\ \E r1 \in OrderRecords, r2 \in OrderRecords :
        /\ r1[KUpdatedAt] # r2[KUpdatedAt]
        /\ \E r \in {UpdateOp(schema, Current, Receiver, r1, None, None, 0, <<>>)},
              q \in {UpdateOp(schema, Current, Receiver, r2, None, None, 0, <<>>)} :
                ApplyOrder("first", r1, r2, r, q)

\* entity._update(R2) here, entity._update(R1) on the copy
MergeSecond ==
    /\ last.op = "first" /\ last.ok
    /\ \E r \in {UpdateOp(schema, Current, Receiver, last.r2, None, None, 0, <<>>)},
          q \in {UpdateOp(schema, last.other, Receiver, last.r1, None, None, 0, <<>>)} :
            ApplyOrder("second", last.r1, last.r2, r, q)

NextOrder == MergeFirst \/ MergeSecond

SpecOrder == InitOrder /\ [][NextOrder]_vars

(***************************************************************************)
(* Properties of the order of merges                                       *)
(***************************************************************************)
\* the record of the two that is newer, and the one that is older
Newer == IF TimeOf(last.r1[KUpdatedAt]) > TimeOf(last.r2[KUpdatedAt])
         THEN last.r1 ELSE last.r2
Older == IF TimeOf(last.r1[KUpdatedAt]) > TimeOf(last.r2[KUpdatedAt])
         THEN last.r2 ELSE last.r1

\* both orders gave the same fields: those of the newer record, and of the
\* older record the fields that the newer does not carry
SameInBothOrders ==
    /\ last.ok
    /\ fields[Receiver] = last.other.F[Receiver]
    /\ \A k \in DOMAIN Newer \ {KUpdatedAt} : fields[Receiver][k] = Newer[k]
    /\ \A k \in DOMAIN Older \ DOMAIN Newer : fields[Receiver][k] = Older[k]
    /\ TimeOf(fields[Receiver][KUpdatedAt]) = TimeOf(Newer[KUpdatedAt])

HeldNone == DOMAIN last.start \cap (DOMAIN last.r1 \cup DOMAIN last.r2) = {}

ConcurrentFields ==
    {Merged(ReceiverId, Compact([k \in {KUpdatedAt, KX} |->
            IF k = KUpdatedAt THEN u ELSE x])) :
        u \in Times \cup {Absent}, x \in Scalars \cup {Absent}}

\* the records the two tasks merge
ConcurrentRecords ==
    {Compact([k \in {KUpdatedAt, KX} |-> IF k = KUpdatedAt THEN u ELSE x]) :
        u \in Times, x \in Scalars \cup {Absent}}

\* a task that is to merge rec
NewProc(rec) ==
    [pc |-> "start", rec |-> rec, data |-> EmptyDict, keys |-> <<>>,
     do_override |-> FALSE]

Procs == {1, 2}

InitConcurrent ==
    /\ fields \in {<<f, TargetId>> : f \in ConcurrentFields}
    /\ backrefs = <<EmptyDict, EmptyDict>>
    /\ exists_ = <<None, None>>
    /\ cache = (<<VStr("Task"), VInt(1)>> :> Receiver) @@ (<<VStr("Shot"), VInt(1)>> :> Target)
    /\ schema = "none"
    /\ last = [op |-> "idle", start |-> fields, order |-> <<>>, overlap |-> FALSE]
    /\ tasks = <<>>
    /\ calls = <<>>
    /\ procs \in {<<NewProc(r1), NewProc(r2)>> :
                    r1 \in ConcurrentRecords, r2 \in ConcurrentRecords}

\* the state that the step result r leaves
ApplyConcurrent(r) ==
    /\ fields' = r.st.F
    /\ backrefs' = r.st.B
    /\ exists_' = r.st.X
    /\ cache' = r.st.C
    /\ UNCHANGED <<schema, tasks, calls>>

\* task i copies its record, expands deep keys and decides whether to
\* override; last.order lists the tasks in the order of their decisions, and
\* last.overlap tells whether a task decided while the other was in its loop
Decide(i) ==
    /\ procs[i].pc = "start"
    /\ \E ord \in Orders(RankedKeys(procs[i].rec)) :
        \E r \in {UpdateBegin(schema, Current, Receiver, procs[i].rec, None, None, ord)} :
            /\ ApplyConcurrent(r)
            /\ procs' = [procs EXCEPT ![i] =
                            [@ EXCEPT !.pc = IF ~r.ok THEN "failed"
                                             ELSE IF r.keys = <<>> THEN "done"
                                             ELSE "assign",
                                      !.data = r.data, !.keys = r.keys,
                                      !.do_override = r.do_override]]
            /\ last' = [last EXCEPT !.op = "decide",
                                    !.order = Append(@, i),
                                    !.overlap = @ \/ procs[3 - i].pc = "assign"]

\* task i makes the next pass of its assignment loop
AssignNext(i) ==
    /\ procs[i].pc = "assign"
    /\ \E r \in {UpdateAssign(schema, Current, Receiver, procs[i].data, None,
                              procs[i].do_override, Head(procs[i].keys))} :
            /\ ApplyConcurrent(r)
            /\ procs' = [procs EXCEPT ![i] =
                            [@ EXCEPT !.pc = IF ~r.ok THEN "failed"
                                             ELSE IF Len(procs[i].keys) = 1 THEN "done"
                                             ELSE "assign",
                                      !.keys = Tail(@)]]
            /\ last' = [last EXCEPT !.op = "assign"]

NextConcurrent == \E i \in Procs : Decide(i) \/ AssignNext(i)

SpecConcurrent == InitConcurrent /\ [][NextConcurrent]_vars

(***************************************************************************)
(* Properties of concurrent merges                                         *)
(***************************************************************************)
AllDone == \A i \in Procs : procs[i].pc = "done"

\* the receiver's fields after merging the record of task i and then the
\* record of task j, one after the other, from the fields held at first
Serial(i, j) ==
    LET st0 == Heap(<<last.start[Receiver], last.start[Target]>>,
                    <<EmptyDict, EmptyDict>>, <<None, None>>, cache)
    IN  Bind(UpdateOp(schema, st0, Receiver, procs[i].rec, None, None, 0, <<>>),
             LAMBDA u1 :
               Bind(UpdateOp(schema, u1.st, Receiver, procs[j].rec, None, None, 0, <<>>),
                    LAMBDA u2 : u2.st.F[Receiver]))

\* C18 as stated: concurrent merges are serializable.  When both tasks are
\* done the receiver's fields are those of merging the two records one after
\* the other in some order.
C18_Serializable ==
    AllDone => fields[Receiver] \in {Serial(1, 2), Serial(2, 1)}

\* the newer record's updated_at is stored with the older record's x
Mispaired ==
    \E i \in Procs :
        LET new == procs[i].rec
            old == procs[3 - i].rec
        IN  /\ new[KUpdatedAt].at > old[KUpdatedAt].at
            /\ KX \in DOMAIN new /\ KX \in DOMAIN old /\ new[KX] # old[KX]
            /\ DictGet(fields[Receiver], KUpdatedAt) = new[KUpdatedAt]
            /\ DictGet(fields[Receiver], KX) = old[KX]

\* C18 amended: last write wins, field by field.  When both tasks are done
\* every field of the receiver holds the value it held at first or the value
\* one of the two records carries for it; and if no task took its decision
\* while the other was in its assignment loop, the fields are those of
\* merging the records one after the other, in the order of the decisions.
C18_LastWriteWins ==
    AllDone =>
        /\ \A k \in DOMAIN fields[Receiver] :
                \/ k \in DOMAIN last.start[Receiver]
                    /\ fields[Receiver][k] = last.start[Receiver][k]
                \/ \E i \in Procs :
                    k \in DOMAIN procs[i].rec /\ fields[Receiver][k] = procs[i].rec[k]
        /\ ~last.overlap =>
                fields[Receiver] = Serial(last.order[1], last.order[2])

\* the tasks interleaved and left the newer timestamp with the older value,
\* which neither order of the two merges gives
C18_MispairedWitness ==
    /\ AllDone /\ last.overlap /\ Mispaired
    /\ fields[Receiver] \notin {Serial(1, 2), Serial(2, 1)}

====
